---- MODULE Spec2Model ----
(***************************************************************************)
(* Folder Gateway (src/src/lib.rs): one inbound request handled by fetch,  *)
(* list_files, serve_file_by_name and serve_file_by_id.  Strings are Rust  *)
(* strings, i.e. sequences of UTF-8 bytes (0..255).  The handler suspends  *)
(* at every await: send() of each outbound call and the body read that     *)
(* follows it (json() or bytes()).  Each action below runs the code from   *)
(* one await to the next.                                                  *)
(***************************************************************************)
EXTENDS Integers, Sequences, FiniteSets, TLC

VARIABLES
    path,       \* url.path() of the inbound request
    env,        \* which secrets the environment binds
    pc,         \* the await the handler is suspended at
    file_name,  \* argument of serve_file_by_name: <<>> until called, then <<name>>
    files,      \* search_result.files inside serve_file_by_name
    file_info,  \* argument of serve_file_by_id: <<>> until called, then <<DriveFile>>
    calls,      \* outbound requests sent so far, in order
    replies,    \* what the provider answered to each of them, in order
    result      \* what fetch returned: <<>> while running, then <<Ok response | Err>>

vars == <<path, env, pc, file_name, files, file_info, calls, replies, result>>

----------------------------------------------------------------------------
(* Bounds of the model *)

MaxRemLen == 3      \* longest remainder after "/files/" in a request path
MaxFiles == 2       \* longest entry list the provider returns

----------------------------------------------------------------------------
(* Bytes that occur in the source *)

Slash == 47         \* '/'
Percent == 37       \* '%'
Quote == 39         \* '\''
Backslash == 92     \* '\\'
DQuote == 34        \* '"'
PrefixLen == 7      \* &path[7..]

\* "/files/"
FilesRoute == <<Slash, 102, 105, 108, 101, 115, Slash>>

\* str::starts_with
StartsWith(s, p) == Len(s) >= Len(p) /\ SubSeq(s, 1, Len(p)) = p

\* &s[n..]
SliceFrom(s, n) == SubSeq(s, n + 1, Len(s))

----------------------------------------------------------------------------
(* urlencoding::decode and urlencoding::encode, as used by lib.rs *)

\* from_hex_digit: -1 stands for None
FromHexDigit(b) ==
    IF b >= 48 /\ b <= 57 THEN b - 48
    ELSE IF b >= 65 /\ b <= 70 THEN b - 55
    ELSE IF b >= 97 /\ b <= 102 THEN b - 87
    ELSE -1

\* decode_binary: every well-formed %XX becomes the byte XX; a '%' that is not
\* followed by two hex digits is kept as it is.
RECURSIVE DecodeBinary(_)
DecodeBinary(data) ==
    IF data = <<>> THEN <<>>
    ELSE IF Head(data) # Percent THEN <<Head(data)>> \o DecodeBinary(Tail(data))
    ELSE LET rest == Tail(data) IN
         IF Len(rest) < 2 THEN <<Percent>> \o rest
         ELSE IF FromHexDigit(rest[1]) = -1 THEN <<Percent>> \o DecodeBinary(rest)
         ELSE IF FromHexDigit(rest[2]) = -1
              THEN <<Percent, rest[1]>> \o DecodeBinary(Tail(rest))
         ELSE <<FromHexDigit(rest[1]) * 16 + FromHexDigit(rest[2])>>
                  \o DecodeBinary(SliceFrom(rest, 2))

IsCont(b) == b >= 128 /\ b <= 191

\* String::from_utf8 succeeds
RECURSIVE Utf8Valid(_)
Utf8Valid(b) ==
    IF b = <<>> THEN TRUE
    ELSE LET h == Head(b)
             n == Len(b)
         IN  IF h < 128 THEN Utf8Valid(Tail(b))
             ELSE IF h >= 194 /\ h <= 223
                  THEN n >= 2 /\ IsCont(b[2]) /\ Utf8Valid(SliceFrom(b, 2))
             ELSE IF h >= 224 /\ h <= 239
                  THEN /\ n >= 3
                       /\ IsCont(b[2]) /\ IsCont(b[3])
                       /\ (h = 224 => b[2] >= 160)
                       /\ (h = 237 => b[2] <= 159)
                       /\ Utf8Valid(SliceFrom(b, 3))
             ELSE IF h >= 240 /\ h <= 244
                  THEN /\ n >= 4
                       /\ IsCont(b[2]) /\ IsCont(b[3]) /\ IsCont(b[4])
                       /\ (h = 240 => b[2] >= 144)
                       /\ (h = 244 => b[2] <= 143)
                       /\ Utf8Valid(SliceFrom(b, 4))
             ELSE FALSE

\* urlencoding::decode(s).is_ok()
DecodeOk(s) == Utf8Valid(DecodeBinary(s))

\* urlencoding::decode(s).unwrap()
Decode(s) == DecodeBinary(s)

HexDigit(d) == IF d < 10 THEN 48 + d ELSE 55 + d

Unreserved(b) ==
    \/ b >= 48 /\ b <= 57
    \/ b >= 65 /\ b <= 90
    \/ b >= 97 /\ b <= 122
    \/ b \in {45, 46, 95, 126}

\* urlencoding::encode
RECURSIVE Encode(_)
Encode(s) ==
    IF s = <<>> THEN <<>>
    ELSE (IF Unreserved(Head(s)) THEN <<Head(s)>>
          ELSE <<Percent, HexDigit(Head(s) \div 16), HexDigit(Head(s) % 16)>>)
         \o Encode(Tail(s))

----------------------------------------------------------------------------
(* The search filter *)

\* file_name.replace("'", "\\'")
RECURSIVE EscapeQuotes(_)
EscapeQuotes(s) ==
    IF s = <<>> THEN <<>>
    ELSE (IF Head(s) = Quote THEN <<Backslash, Quote>> ELSE <<Head(s)>>)
         \o EscapeQuotes(Tail(s))

\* The string literal  '{}'  that format! builds for the name in  q=name='{}'
NameLiteral(name) == <<Quote>> \o EscapeQuotes(name) \o <<Quote>>

----------------------------------------------------------------------------
(* Values *)

\* Option<T>: <<>> is None, <<x>> is Some(x)
None == <<>>
Some(x) == <<x>>
IsSome(o) == o # <<>>
Unwrap(o) == o[1]

\* struct DriveFile as the handler reads it (web_view_link and
\* web_content_link are deserialized and never read)
DriveFile(id, name, mime, shortcut) ==
    [id |-> id, name |-> name, mime_type |-> mime, shortcut_details |-> shortcut]

\* worker::Result<Response>: Ok(Response) ...
Response(status, ctype, cdisp, text, bytes, html) ==
    [kind |-> "Ok", status |-> status, content_type |-> ctype,
     content_disposition |-> cdisp, text |-> text, bytes |-> bytes,
     html |-> html, err |-> ""]

\* ... or Err(worker::Error)
Err(msg) ==
    [kind |-> "Err", status |-> 0, content_type |-> <<>>,
     content_disposition |-> <<>>, text |-> "", bytes |-> <<>>,
     html |-> <<>>, err |-> msg]

\* Response::error(msg, status): a plain-text body, the given status
ResponseError(msg, status) == Response(status, <<>>, <<>>, msg, <<>>, <<>>)

\* "text/html; charset=utf-8"
TextHtml ==
    <<116, 101, 120, 116, 47, 104, 116, 109, 108, 59, 32,
      99, 104, 97, 114, 115, 101, 116, 61, 117, 116, 102, 45, 56>>

\* Response::from_html(html)
ResponseFromHtml(html) == Response(200, TextHtml, <<>>, "", <<>>, html)

\* (200..300).contains(&status)
IsSuccess(status) == status >= 200 /\ status < 300

\* An outbound request: which endpoint, and the part of the URL that varies
ListCall == [kind |-> "list", q_name |-> <<>>, file_id |-> <<>>]
SearchCall(name) == [kind |-> "search", q_name |-> NameLiteral(name), file_id |-> <<>>]
TargetCall(id) == [kind |-> "get", q_name |-> <<>>, file_id |-> id]
DownloadCall(id) == [kind |-> "download", q_name |-> <<>>, file_id |-> id]

----------------------------------------------------------------------------
(* The environment: request paths, secrets and what the provider answers *)

RemAlphabet == {Percent, 53, 67, Quote}     \* '%', '5', 'C', '\''

Remainders == UNION {[1..n -> RemAlphabet] : n \in 0..MaxRemLen}

\* Paths that exercise the router
RoutePaths ==
    {FilesRoute \o r : r \in Remainders}
        \cup {SubSeq(FilesRoute, 1, k) : k \in 1..(PrefixLen - 1)}
        \cup {SubSeq(FilesRoute, 1, PrefixLen - 1) \o <<c>> : c \in RemAlphabet}

\* "/files/", "/files", "/", "/files/5", "/files/%C5"
SamplePaths ==
    {FilesRoute, SubSeq(FilesRoute, 1, PrefixLen - 1), <<Slash>>,
     FilesRoute \o <<53>>,
     FilesRoute \o <<Percent, 67, 53>>}

Envs == [api_key : BOOLEAN, folder_id : BOOLEAN]

Ids == {<<49>>, <<50>>}                     \* "1", "2"
TextPlain == <<116, 101, 120, 116, 47, 112, 108, 97, 105, 110>>   \* "text/plain"
ImagePng == <<105, 109, 97, 103, 101, 47, 112, 110, 103>>         \* "image/png"
BrokenType == <<116, 101, 120, 116, 47, 10, 112, 108, 97, 105, 110>> \* "text/\nplain"
Metas == {<<(<<97>>), TextPlain>>,          \* "a"
          <<(<<98, Quote>>), ImagePng>>,    \* "b'"
          <<(<<99, 10>>), TextPlain>>,      \* "c\n"
          <<(<<97>>), BrokenType>>}         \* "a"
DriveFiles ==
    {DriveFile(i, m[1], m[2], s) : i \in Ids, m \in Metas, s \in {None, Some(<<49>>)}}
FileLists == UNION {[1..n -> DriveFiles] : n \in 0..MaxFiles}

Statuses == {200, 299, 300, 404, 500}
ContentBytes == {<<1>>, <<2, 3>>}
UpstreamErrorBytes == <<69>>

\* What came back for one outbound call.  sent = FALSE: send() failed.
\* body.kind: "files" (a JSON entry list), "file" (a JSON entry), "raw"
\* (bytes that are no such JSON), "unreadable" (reading the body fails).
Body(kind, fs, f, b) == [kind |-> kind, files |-> fs, file |-> f, bytes |-> b]
Reply(sent, status, body) == [sent |-> sent, status |-> status, body |-> body]
SendFailure == Reply(FALSE, 0, Body("unreadable", <<>>, None, <<>>))
BadBodies == {Body("raw", <<>>, None, UpstreamErrorBytes),
              Body("unreadable", <<>>, None, <<>>)}
FailureReplies ==
    {SendFailure}
        \cup {Reply(TRUE, s, Body("raw", <<>>, None, UpstreamErrorBytes)) :
                 s \in {s \in Statuses : ~IsSuccess(s)}}
        \cup {Reply(TRUE, s, b) : s \in {s \in Statuses : IsSuccess(s)}, b \in BadBodies}
OkStatuses == {s \in Statuses : IsSuccess(s)}
ListReplies ==
    FailureReplies \cup {Reply(TRUE, s, Body("files", fs, None, <<>>)) :
                            s \in OkStatuses, fs \in FileLists}
TargetReplies ==
    FailureReplies \cup {Reply(TRUE, s, Body("file", <<>>, Some(f), <<>>)) :
                            s \in OkStatuses, f \in DriveFiles}
DownloadReplies ==
    {r \in FailureReplies : r.body.kind = "unreadable" \/ ~IsSuccess(r.status)}
        \cup {Reply(TRUE, s, Body("raw", <<>>, None, b)) :
                 s \in OkStatuses, b \in ContentBytes}

\* response.json::<DriveResponse>() / json::<DriveFile>() / bytes() succeed
JsonFilesOk(r) == r.body.kind = "files"
JsonFileOk(r) == r.body.kind = "file"
BytesOk(r) == r.body.kind # "unreadable"

----------------------------------------------------------------------------
(* The handler *)

RoutePrefixOnly(p) == IF StartsWith(p, FilesRoute) THEN "serve" ELSE "not_found"
\* match path { "/files/" => .., path if path.starts_with("/files/") => .., _ => .. }
Route(p) ==
    IF p = FilesRoute THEN "list"
    ELSE IF StartsWith(p, FilesRoute) THEN "serve"
    ELSE "not_found"


\* return Response::error("File not found", 404)
FileNotFound500 == ResponseError("File not found", 500)
FileNotFound == ResponseError("File not found", 404)

\* serve_file_by_id(api_key, &target_file_info): what is served for a shortcut
ServedForShortcut(shortcut_file, target_file_info) == target_file_info

LastMatch(fs) == fs[Len(fs)]
\* search_result.files[0]
FirstMatch(fs) == fs[1]

\* The argument of the get-by-id call: shortcut_details.target_id
TargetId(f) == Unwrap(f.shortcut_details)

\* format!("inline; filename=\"{}\"", file_info.name)
ContentDisposition(name) ==
    <<105, 110, 108, 105, 110, 101, 59, 32,
      102, 105, 108, 101, 110, 97, 109, 101, 61, DQuote>> \o name \o <<DQuote>>

\* headers.set(name, value) succeeds: the runtime rejects a value holding
\* NUL, LF or CR
HeaderValueOk(v) == \A i \in 1..Len(v) : v[i] \notin {0, 10, 13}

ServeResponseNoHeaders(f, body) ==
    Response(200, <<>>, <<>>, "", body, <<>>)
\* Ok(Response::from_bytes(body)?.with_headers(headers))
ServeResponse(f, body) ==
    Response(200, f.mime_type, ContentDisposition(f.name), "", body, <<>>)

UpstreamFailureForwarded(msg, reply) == ResponseError(msg, reply.status)
\* return Response::error(<message of the call site>, 500)
UpstreamFailure(msg, reply) == ResponseError(msg, 500)

\* The file blocks pushed onto the page, one per entry, in the order received
ListingHtml(fs) ==
    [i \in 1..Len(fs) |->
        [href |-> FilesRoute \o Encode(fs[i].name),
         text |-> fs[i].name,
         type |-> fs[i].mime_type]]

Finish(res) ==
    /\ result' = Some(res)
    /\ pc' = "done"

\* serve_file_by_id(api_key, f) up to its first await
CallServeFileById(f) ==
    /\ file_info' = Some(f)
    /\ calls' = Append(calls, DownloadCall(f.id))
    /\ pc' = "download_response"
    /\ UNCHANGED result

Init ==
    /\ path \in SamplePaths
    /\ env \in Envs
    /\ pc = "fetch"
    /\ file_name = None
    /\ files = <<>>
    /\ file_info = None
    /\ calls = <<>>
    /\ replies = <<>>
    /\ result = None

\* fetch, up to the first await of the function it dispatches to.  req.url()
\* and Request::new succeed: the inbound URL was parsed by the runtime and
\* every outbound URL has a fixed scheme and host.
Fetch ==
    /\ pc = "fetch"
    /\ UNCHANGED <<path, env, files, file_info, replies>>
    /\ IF ~env.api_key
       THEN Finish(Err("secret GOOGLE_API_KEY")) /\ UNCHANGED <<file_name, calls>>
       ELSE IF ~env.folder_id
       THEN Finish(Err("secret GOOGLE_DRIVE_FOLDER_ID")) /\ UNCHANGED <<file_name, calls>>
       ELSE IF Route(path) = "list"
       THEN /\ calls' = <<ListCall>>
            /\ pc' = "list_response"
            /\ UNCHANGED <<file_name, result>>
       ELSE IF Route(path) = "serve"
       THEN IF ~DecodeOk(SliceFrom(path, PrefixLen))
            THEN Finish(Err("Invalid file name encoding"))
                     /\ UNCHANGED <<file_name, calls>>
            ELSE /\ file_name' = Some(Decode(SliceFrom(path, PrefixLen)))
                 /\ calls' = <<SearchCall(Decode(SliceFrom(path, PrefixLen)))>>
                 /\ pc' = "search_response"
                 /\ UNCHANGED result
       ELSE Finish(ResponseError("Not found", 404)) /\ UNCHANGED <<file_name, calls>>

\* The reply the handler is reading the body of
LastReply == replies[Len(replies)]

\* list_files resumed from send().await, up to response.json().await
ListResponseStep(r) ==
    /\ replies' = Append(replies, r)
    /\ UNCHANGED <<path, env, file_name, files, file_info, calls>>
    /\ IF ~r.sent THEN Finish(Err("send"))
       ELSE IF ~IsSuccess(r.status)
       THEN Finish(UpstreamFailure("Failed to fetch files from Google Drive", r))
       ELSE pc' = "list_json" /\ UNCHANGED result

\* list_files resumed from response.json().await, to its return
ListJson ==
    /\ pc = "list_json"
    /\ UNCHANGED <<path, env, file_name, files, file_info, calls, replies>>
    /\ IF ~JsonFilesOk(LastReply) THEN Finish(Err("json"))
       ELSE Finish(ResponseFromHtml(ListingHtml(LastReply.body.files)))

\* serve_file_by_name resumed from the search's send().await, up to
\* search_response.json().await
SearchResponseStep(r) ==
    /\ replies' = Append(replies, r)
    /\ UNCHANGED <<path, env, file_name, files, file_info, calls>>
    /\ IF ~r.sent THEN Finish(Err("send"))
       ELSE IF ~IsSuccess(r.status)
       THEN Finish(UpstreamFailure("Failed to search for file", r))
       ELSE pc' = "search_json" /\ UNCHANGED result

\* serve_file_by_name resumed from search_response.json().await, up to the
\* next send().await or its return
SearchJson ==
    /\ pc = "search_json"
    /\ UNCHANGED <<path, env, file_name, replies>>
    /\ IF ~JsonFilesOk(LastReply)
       THEN Finish(Err("json")) /\ UNCHANGED <<files, file_info, calls>>
       ELSE /\ files' = LastReply.body.files
            /\ IF LastReply.body.files = <<>>
               THEN Finish(FileNotFound)
                        /\ UNCHANGED <<file_info, calls>>
               ELSE IF IsSome(FirstMatch(LastReply.body.files).shortcut_details)
               THEN /\ calls' = Append(calls,
                            TargetCall(TargetId(FirstMatch(LastReply.body.files))))
                    /\ pc' = "target_response"
                    /\ UNCHANGED <<file_info, result>>
               ELSE CallServeFileById(FirstMatch(LastReply.body.files))

\* serve_file_by_name resumed from the shortcut target's send().await, up to
\* target_response.json().await
TargetResponseStep(r) ==
    /\ replies' = Append(replies, r)
    /\ UNCHANGED <<path, env, file_name, files, file_info, calls>>
    /\ IF ~r.sent THEN Finish(Err("send"))
       ELSE IF ~IsSuccess(r.status)
       THEN Finish(UpstreamFailure("Failed to fetch target file of shortcut", r))
       ELSE pc' = "target_json" /\ UNCHANGED result

\* serve_file_by_name resumed from target_response.json().await, up to the
\* download's send().await
TargetJson ==
    /\ pc = "target_json"
    /\ UNCHANGED <<path, env, file_name, files, replies>>
    /\ IF ~JsonFileOk(LastReply)
       THEN Finish(Err("json")) /\ UNCHANGED <<file_info, calls>>
       ELSE CallServeFileById(
                ServedForShortcut(FirstMatch(files), Unwrap(LastReply.body.file)))

\* serve_file_by_id resumed from the download's send().await, up to
\* download_response.bytes().await: the status test, then the two headers
DownloadResponseStep(r) ==
    /\ replies' = Append(replies, r)
    /\ UNCHANGED <<path, env, file_name, files, file_info, calls>>
    /\ IF ~r.sent THEN Finish(Err("send"))
       ELSE IF ~IsSuccess(r.status)
       THEN Finish(UpstreamFailure("Failed to download file", r))
       ELSE IF ~HeaderValueOk(Unwrap(file_info).mime_type)
       THEN Finish(Err("headers Content-Type"))
       ELSE IF ~HeaderValueOk(ContentDisposition(Unwrap(file_info).name))
       THEN Finish(Err("headers Content-Disposition"))
       ELSE pc' = "download_bytes" /\ UNCHANGED result

\* serve_file_by_id resumed from download_response.bytes().await, to its return
DownloadBytes ==
    /\ pc = "download_bytes"
    /\ UNCHANGED <<path, env, file_name, files, file_info, calls, replies>>
    /\ IF ~BytesOk(LastReply) THEN Finish(Err("bytes"))
       ELSE Finish(ServeResponse(Unwrap(file_info), LastReply.body.bytes))

\* The provider answers the pending call and the handler resumes
ListResponse == pc = "list_response" /\ \E r \in ListReplies : ListResponseStep(r)
SearchResponse == pc = "search_response" /\ \E r \in ListReplies : SearchResponseStep(r)
TargetResponse == pc = "target_response" /\ \E r \in TargetReplies : TargetResponseStep(r)
DownloadResponse ==
    pc = "download_response" /\ \E r \in DownloadReplies : DownloadResponseStep(r)

Next ==
    \/ Fetch
    \/ ListResponse
    \/ ListJson
    \/ SearchResponse
    \/ SearchJson
    \/ TargetResponse
    \/ TargetJson
    \/ DownloadResponse
    \/ DownloadBytes

Spec == Init /\ [][Next]_vars

\* The router alone, over every path up to MaxRemLen
InitRoute ==
    /\ path \in RoutePaths
    /\ env \in Envs
    /\ pc = "fetch"
    /\ file_name = None
    /\ files = <<>>
    /\ file_info = None
    /\ calls = <<>>
    /\ replies = <<>>
    /\ result = None

SpecRoute == InitRoute /\ [][Fetch]_vars

----------------------------------------------------------------------------
(* Properties *)

Done == pc = "done"
Routed == pc # "fetch"
Res == Unwrap(result)
SecretsBound == env.api_key /\ env.folder_id
Remainder == SliceFrom(path, PrefixLen)
ServePath == StartsWith(path, FilesRoute) /\ Len(path) > PrefixLen
IsNotFound404 ==
    Done /\ Res.kind = "Ok" /\ Res.status = 404 /\ Res.text = "Not found"
ListingInvoked == calls # <<>> /\ calls[1].kind = "list"
ServeByNameInvokedOn(name) ==
    /\ file_name = Some(name)
    /\ calls # <<>>
    /\ calls[1].kind = "search"

\* C1 as stated, read with both secrets bound: once fetch has routed, the
\* path alone has selected the behaviour: "/files/" invoked Listing, "/files/"
\* plus a non-empty remainder invoked Serve-By-Name on the decoded remainder,
\* any other path got a 404 and no outbound call.
C1_RoutingByPathAlone ==
    (Routed /\ SecretsBound) =>
        /\ path = FilesRoute => ListingInvoked
        /\ ServePath => ServeByNameInvokedOn(Decode(Remainder))
        /\ (path # FilesRoute /\ ~ServePath) => (IsNotFound404 /\ calls = <<>>)

\* C1 amended: with both secrets bound, "/files/" invokes Listing, "/files/"
\* plus a non-empty remainder that decodes invokes Serve-By-Name on the decoded
\* remainder, a remainder that does not decode invokes neither and sends
\* nothing, and any other path gets a 404 and no outbound call; with a secret
\* missing no path selects a behaviour and nothing is sent.
C1_Routing ==
    Routed =>
        /\ SecretsBound =>
            /\ path = FilesRoute => (ListingInvoked /\ file_name = None)
            /\ (ServePath /\ DecodeOk(Remainder))
                   => ServeByNameInvokedOn(Decode(Remainder))
            /\ (ServePath /\ ~DecodeOk(Remainder))
                   => (Done /\ calls = <<>> /\ file_name = None)
            /\ (path # FilesRoute /\ ~ServePath)
                   => (IsNotFound404 /\ calls = <<>> /\ file_name = None)
        /\ ~SecretsBound => (Done /\ calls = <<>> /\ file_name = None /\ Res.kind = "Err")

\* A percent-encoded remainder was decoded and handed to Serve-By-Name
C1_Witness ==
    /\ pc = "search_response"
    /\ ServePath
    /\ Unwrap(file_name) # Remainder
    /\ ServeByNameInvokedOn(Decode(Remainder))

\* C2: when the remainder of "/files/<name>" fails to decode, fetch ends in
\* a 4xx response it built itself, not in a propagated error, and sends no
\* outbound call.
C2_DecodeFailureIsClientError ==
    (Done /\ SecretsBound /\ ServePath /\ ~DecodeOk(Remainder)) =>
        /\ Res.kind = "Ok"
        /\ Res.status >= 400 /\ Res.status <= 499
        /\ calls = <<>>

\* The i-th outbound call was answered with a success status and a body of
\* the shape its call site reads
ReplyGood(i) ==
    /\ replies[i].sent
    /\ IsSuccess(replies[i].status)
    /\ CASE calls[i].kind = "get" -> JsonFileOk(replies[i])
         [] calls[i].kind = "download" -> BytesOk(replies[i])
         [] OTHER -> JsonFilesOk(replies[i])
AllAnswered == Len(replies) = Len(calls)
SearchMatched == Len(replies) >= 1 /\ calls[1].kind = "search" /\ ReplyGood(1) /\ files # <<>>
Matched == files[1]
MatchedIsShortcut == IsSome(Matched.shortcut_details)
\* The entry the provider returned for the get-by-id call
FetchedTarget == Unwrap(replies[2].body.file)

\* C3: whatever the provider did with the outbound calls, the request ends
\* in an HTTP response built by the handler, never in a propagated error.
C3_AlwaysAResponse ==
    (Done /\ replies # <<>>) => Res.kind = "Ok"

\* C4: the entry passed to serve_file_by_id never carries a shortcut
\* reference, also when the fetched target of a shortcut is itself a shortcut.
C4_NoShortcutServed ==
    IsSome(file_info) => ~IsSome(Unwrap(file_info).shortcut_details)

\* C5: first match a shortcut and every provider call succeeding, the calls
\* are search, get-by-id of the targetId, download of the fetched target's
\* id, and the download never carries the shortcut entry's own id.
C5_ShortcutOwnIdNeverDownloaded ==
    (Done /\ SearchMatched /\ MatchedIsShortcut /\ AllAnswered
          /\ \A i \in 1..Len(calls) : ReplyGood(i)) =>
        /\ Len(calls) = 3
        /\ calls[2] = [kind |-> "get", q_name |-> <<>>,
                       file_id |-> Unwrap(Matched.shortcut_details)]
        /\ calls[3] = [kind |-> "download", q_name |-> <<>>,
                       file_id |-> FetchedTarget.id]
        /\ calls[3].file_id # Matched.id

\* The message of each call site's upstream failure
SiteMessage(kind) ==
    CASE kind = "list" -> "Failed to fetch files from Google Drive"
      [] kind = "search" -> "Failed to search for file"
      [] kind = "get" -> "Failed to fetch target file of shortcut"
      [] kind = "download" -> "Failed to download file"
CallKinds == {"list", "search", "get", "download"}

\* C6: a non-2xx status from any outbound call ends the request: a 500
\* response carrying that call site's own message, no further call, the
\* upstream status not forwarded and no byte of the upstream body emitted.
C6_UpstreamStatusTerminal ==
    /\ \A j, k \in CallKinds : SiteMessage(j) = SiteMessage(k) => j = k
    /\ \A i \in 1..Len(replies) :
          (replies[i].sent /\ ~IsSuccess(replies[i].status)) =>
              /\ Done
              /\ i = Len(replies) /\ i = Len(calls)
              /\ Res.kind = "Ok"
              /\ Res.status = 500
              /\ Res.text = SiteMessage(calls[i].kind)
              /\ Res.bytes = <<>> /\ Res.html = <<>>

\* The shortcut-target fetch came back 404 with a body and the handler
\* answered 500 with its own message
C6_Witness ==
    /\ Done /\ Len(calls) = 2 /\ calls[2].kind = "get" /\ AllAnswered
    /\ replies[2].sent /\ replies[2].status = 404
    /\ replies[2].body.bytes # <<>>
    /\ Res.status = 500
    /\ Res.text = "Failed to fetch target file of shortcut"

\* C7: a search that succeeds with no entry gives 404 "File not found",
\* not a 5xx, and no shortcut-target fetch or download is sent: once that
\* reply is in, the handler is reading its body or has answered 404.
C7_EmptySearchIsNotFound ==
    (Len(replies) >= 1 /\ calls[1].kind = "search" /\ ReplyGood(1)
         /\ replies[1].body.files = <<>>) =>
        /\ Len(calls) = 1
        /\ pc \in {"search_json", "done"}
        /\ Done =>
              /\ Res.kind = "Ok"
              /\ Res.status = 404
              /\ Res.text = "File not found"

C7_Witness ==
    /\ Done /\ Len(replies) = 1 /\ calls[1].kind = "search" /\ ReplyGood(1)
    /\ replies[1].body.files = <<>>
    /\ Res.status = 404

\* The metadata a serve resolves to: the fetched target's for a shortcut,
\* the matched entry's otherwise
Resolved == IF MatchedIsShortcut THEN FetchedTarget ELSE Matched
Served ==
    /\ Done /\ SearchMatched /\ AllAnswered
    /\ calls[Len(calls)].kind = "download"
    /\ Res.kind = "Ok" /\ Res.status = 200

\* C8: a successful serve carries Content-Type = the resolved metadata's
\* type, Content-Disposition = inline; filename="<resolved name>" with the
\* name verbatim, and as body exactly the bytes of the download reply.
C8_ServeHeadersAndBody ==
    Served =>
        /\ Res.content_type = Resolved.mime_type
        /\ Res.content_disposition =
               <<105, 110, 108, 105, 110, 101, 59, 32, 102, 105, 108, 101,
                 110, 97, 109, 101, 61, 34>> \o Resolved.name \o <<34>>
        /\ Res.bytes = replies[Len(replies)].body.bytes
        /\ Res.text = "" /\ Res.html = <<>>

\* A shortcut was served under its target's name and type, which differ
\* from the shortcut entry's own
C8_Witness ==
    /\ Served /\ MatchedIsShortcut
    /\ Matched.name # FetchedTarget.name
    /\ Matched.mime_type # FetchedTarget.mime_type
    /\ Res.content_type = FetchedTarget.mime_type
    /\ Res.bytes = <<2, 3>>

\* C10: with one or more entries returned, the first alone decides whether
\* a shortcut is resolved, which id is downloaded and which name and type
\* are served; no later entry enters a call or the response.
C10_FirstMatchDecides ==
    SearchMatched =>
        /\ Len(calls) >= 2
        /\ calls[2] = IF MatchedIsShortcut
                      THEN [kind |-> "get", q_name |-> <<>>,
                            file_id |-> Unwrap(Matched.shortcut_details)]
                      ELSE [kind |-> "download", q_name |-> <<>>,
                            file_id |-> Matched.id]
        /\ MatchedIsShortcut <=> (\E i \in 1..Len(calls) : calls[i].kind = "get")
        /\ (Len(calls) >= 3) =>
              /\ MatchedIsShortcut
              /\ Len(calls) = 3
              /\ calls[3] = [kind |-> "download", q_name |-> <<>>,
                             file_id |-> FetchedTarget.id]
        /\ IsSome(file_info) => Unwrap(file_info) = Resolved
        /\ Served =>
              /\ Res.content_type = Resolved.mime_type
              /\ Res.content_disposition = ContentDisposition(Resolved.name)

\* Two entries came back, the second a shortcut with another id, name and
\* type; the first was served without any resolve
C10_Witness ==
    /\ Served /\ Len(files) >= 2
    /\ ~MatchedIsShortcut /\ IsSome(files[2].shortcut_details)
    /\ files[2].id # Matched.id
    /\ files[2].name # Matched.name
    /\ Len(calls) = 2
    /\ calls[2].file_id = Matched.id
    /\ Res.content_type = Matched.mime_type

\* Number of single quotes among the first n bytes of s
RECURSIVE QuotesBefore(_, _)
QuotesBefore(s, n) ==
    IF n = 0 THEN 0
    ELSE QuotesBefore(s, n - 1) + (IF s[n] = Quote THEN 1 ELSE 0)

\* esc is name with each single quote replaced by backslash + single quote
\* and nothing else changed
OnlyQuotesEscaped(name, esc) ==
    /\ Len(esc) = Len(name) + QuotesBefore(name, Len(name))
    /\ \A i \in 1..Len(name) :
          LET at == i + QuotesBefore(name, i - 1) IN
          IF name[i] = Quote
          THEN esc[at] = Backslash /\ esc[at + 1] = Quote
          ELSE esc[at] = name[i]

\* How the query language reads a string literal from position i on: a
\* backslash escapes the byte after it, the first unescaped single quote
\* closes the literal.  The position of that quote, 0 if there is none.
RECURSIVE ClosingQuote(_, _)
ClosingQuote(lit, i) ==
    IF i > Len(lit) THEN 0
    ELSE IF lit[i] = Backslash THEN ClosingQuote(lit, i + 2)
    ELSE IF lit[i] = Quote THEN i
    ELSE ClosingQuote(lit, i + 1)

\* C9: for every decoded name the escaping changes single quotes only, each
\* into backslash + single quote, and the name's literal in the search filter
\* is closed by the quote the handler appends and by nothing before it.
C9_FilterLiteralWellFormed ==
    (IsSome(file_name) /\ calls # <<>>) =>
        LET lit == calls[1].q_name IN
        /\ OnlyQuotesEscaped(Unwrap(file_name), SubSeq(lit, 2, Len(lit) - 1))
        /\ ClosingQuote(lit, 2) = Len(lit)

====
